---- MODULE Spec2Model ----
(***************************************************************************)
(* Verification model of the lmp language-model toolkit:                   *)
(*   - lmp.util.metric.cross_entropy_loss and its test                     *)
(*   - lmp.model.ALL_MODELS / MODEL_OPTS                                   *)
(*   - lmp.model.BaseModel: abstract methods, pred, train_parser           *)
(***************************************************************************)
EXTENDS Integers, Sequences, FiniteSets, TLC

VARIABLES
  \* cross_entropy_loss call under test
  batch_tkids,      \* target token ids, batch_tkids[b][s]
  batch_tkids_pd,   \* predicted distributions, batch_tkids_pd[b][s][tkid]
  loss_pc,          \* "ready" | "done" | "asserted"
  loss_out,         \* result of cross_entropy_loss, one value per sequence
  test_outcome,     \* "none" | "passed" | "failed"
  \* the Python modules and classes of lmp.model
  imported,         \* names of the modules imported so far
  classes,          \* class name -> class object
  ALL_MODELS,       \* lmp.model.ALL_MODELS
  MODEL_OPTS,       \* lmp.model.MODEL_OPTS
  last_call,        \* the last lookup or instantiation and its outcome
  \* BaseModel.train_parser and the command line it parses
  parser_args,      \* the arguments added to the argparse.ArgumentParser
  parser_ret,       \* what train_parser returned ("not called" before the call)
  parse_argv,       \* the command line: option -> raw string
  parse_result,     \* outcome of parser.parse_args(argv)
  \* a language model used for inference and training
  grad_enabled,     \* torch.is_grad_enabled()
  params,           \* the model's parameters
  params_grad,      \* their .grad: <<>> (None) or <<g>>
  autograd_graphs,  \* losses whose autograd graph is alive
  held_states,      \* hidden state the caller keeps: <<>> (None) or <<h>>
  pred_no_grad,     \* whether the model class decorates its own pred with torch.no_grad()
  model_call        \* the last call on the model and what it returned

lossVars == <<batch_tkids, batch_tkids_pd, loss_pc, loss_out, test_outcome>>
modelVars == <<imported, classes, ALL_MODELS, MODEL_OPTS, last_call>>

parserVars == <<parser_args, parser_ret, parse_argv, parse_result>>

predVars ==
  <<grad_enabled, params, params_grad, autograd_graphs, held_states, pred_no_grad,
    model_call>>

vars == <<lossVars, modelVars, parserVars, predVars>>

\* what an operation of one part of the program leaves alone
notLossVars == <<modelVars, parserVars, predVars>>
notModelVars == <<lossVars, parserVars, predVars>>
notParserVars == <<lossVars, modelVars, predVars>>
notPredVars == <<lossVars, modelVars, parserVars>>

(***************************************************************************)
(* Bounds of the model.                                                    *)
(***************************************************************************)
MaxSeqLen == 2
MaxUserClasses == 2
MaxMissing == 2
MaxGraphs == 1

(***************************************************************************)
(* Special token ids (lmp.tknzr._base) and the vocabulary of the test.     *)
(***************************************************************************)
BOS_TKID == 0
EOS_TKID == 1
PAD_TKID == 2
UNK_TKID == 3

Vocab == {BOS_TKID, EOS_TKID, PAD_TKID, UNK_TKID}

(***************************************************************************)
(* Floating point values: <<kind, n, d>> with kind "num" (the fraction     *)
(* n / d in lowest terms, d > 0), "nan", "-inf" or "inf".  Probabilities   *)
(* are counted in tenths and logarithms in thousandths.                    *)
(***************************************************************************)
NaN == <<"nan", 0, 1>>
NegInf == <<"-inf", 0, 1>>
PosInf == <<"inf", 0, 1>>

Abs(x) == IF x < 0 THEN -x ELSE x

RECURSIVE Gcd(_, _)
Gcd(a, b) == IF b = 0 THEN a ELSE Gcd(b, a % b)

\* the fraction n / d (d > 0) in lowest terms
Num(n, d) ==
  LET g == Gcd(Abs(n), d) IN <<"num", n \div g, d \div g>>

IsFinite(x) == x[1] = "num"

\* math.log / torch.log of a probability p / 10: round(1000 * ln(p / 10))
LogTenths(p) ==
  CASE p = 1  -> -2303
    [] p = 2  -> -1609
    [] p = 3  -> -1204
    [] p = 4  -> -916
    [] p = 5  -> -693
    [] p = 6  -> -511
    [] p = 7  -> -357
    [] p = 8  -> -223
    [] p = 9  -> -105
    [] p = 10 -> 0

Log(x) ==
  IF x = NaN THEN NaN
  ELSE IF x[2] = 0 THEN NegInf
  ELSE Num(LogTenths(x[2]), 1)

\* IEEE addition
FAdd(x, y) ==
  IF x = NaN \/ y = NaN THEN NaN
  ELSE IF x = NegInf \/ y = NegInf THEN NegInf
  ELSE Num(x[2] * y[3] + y[2] * x[3], x[3] * y[3])

\* - (total / count) in IEEE arithmetic, count an integer >= 0
NegMean(total, count) ==
  IF total = NaN THEN NaN
  ELSE IF total = NegInf THEN PosInf
  ELSE IF count = 0
    THEN (IF total[2] = 0 THEN NaN ELSE IF total[2] < 0 THEN PosInf ELSE NegInf)
  ELSE Num(-total[2], total[3] * count)

RECURSIVE SeqSum(_)
SeqSum(s) == IF s = <<>> THEN Num(0, 1) ELSE FAdd(Head(s), SeqSum(Tail(s)))

RECURSIVE CountTrue(_)
CountTrue(s) ==
  IF s = <<>> THEN 0 ELSE (IF Head(s) THEN 1 ELSE 0) + CountTrue(Tail(s))

(***************************************************************************)
(* lmp.util.metric.cross_entropy_loss, as a chain of tensor operations.    *)
(***************************************************************************)
\* torch.gather along the vocabulary axis: probability of each target token
GatherTargetProb(tkids, pd) ==
  [b \in DOMAIN tkids |-> [s \in DOMAIN tkids[b] |-> pd[b][s][tkids[b][s]]]]

\* faulty variants: a mask that forgets the NaN test, one that forgets the PAD test
LossMaskKeepingNaN(tkids, p) ==
  [b \in DOMAIN tkids |-> [s \in DOMAIN tkids[b] |-> tkids[b][s] # PAD_TKID]]

LossMaskKeepingPad(tkids, p) ==
  [b \in DOMAIN tkids |-> [s \in DOMAIN tkids[b] |-> p[b][s] # NaN]]

\* positions that take part in the loss
LossMask(tkids, p) ==
  [b \in DOMAIN tkids |->
    [s \in DOMAIN tkids[b] |-> tkids[b][s] # PAD_TKID /\ p[b][s] # NaN]]

\* log-probabilities with the masked positions filled with zero
MaskedLogProb(p, mask) ==
  [b \in DOMAIN p |->
    [s \in DOMAIN p[b] |-> IF mask[b][s] THEN Log(p[b][s]) ELSE Num(0, 1)]]

MaskCount(mask) ==
  [b \in DOMAIN mask |-> CountTrue(mask[b])]

cross_entropy_loss(tkids, pd) ==
  LET p    == GatherTargetProb(tkids, pd)
      mask == LossMask(tkids, p)
      logp == MaskedLogProb(p, mask)
      cnt  == MaskCount(mask)
  IN  [b \in DOMAIN tkids |-> NegMean(SeqSum(logp[b]), cnt[b])]

(***************************************************************************)
(* The test's fixtures (test_cross_entropy_loss.py).                       *)
(***************************************************************************)
\* torch.zeros(vocab) with one entry set
OneHot(tkid, p) == [v \in Vocab |-> IF v = tkid THEN p ELSE Num(0, 1)]

FixtureTkids ==
  << <<BOS_TKID, UNK_TKID, EOS_TKID, PAD_TKID, PAD_TKID>>,
     <<BOS_TKID, UNK_TKID, UNK_TKID, UNK_TKID, EOS_TKID>> >>

FixturePd ==
  << << OneHot(BOS_TKID, Num(9, 1)), OneHot(UNK_TKID, Num(8, 1)),
        OneHot(EOS_TKID, Num(7, 1)), OneHot(PAD_TKID, Num(6, 1)),
        OneHot(PAD_TKID, Num(5, 1)) >>,
     << OneHot(BOS_TKID, Num(4, 1)), OneHot(UNK_TKID, Num(3, 1)),
        OneHot(UNK_TKID, Num(2, 1)), OneHot(UNK_TKID, Num(1, 1)),
        OneHot(EOS_TKID, NaN) >> >>

FixtureExpectedLoss ==
  LET b0 == LogTenths(9) + LogTenths(8) + LogTenths(7)
      b1 == LogTenths(4) + LogTenths(3) + LogTenths(2) + LogTenths(1)
  IN  << Num(-b0, 3), Num(-b1, 4) >>

\* torch.isclose(input, other) with rtol = 1e-5, atol = 1e-8 (1e-5 thousandths)
IsClose(x, y) ==
  /\ IsFinite(x)
  /\ IsFinite(y)
  /\ Abs(x[2] * y[3] - y[2] * x[3]) <= (x[3] * (y[3] + Abs(y[2]))) \div 100000

(***************************************************************************)
(* Inputs of the bounded exploration: every position holds a target token  *)
(* and the probability the model gave it.                                  *)
(***************************************************************************)
Cells ==
  { <<PAD_TKID, Num(5, 1)>>, <<PAD_TKID, NaN>>, <<UNK_TKID, Num(5, 1)>>,
    <<UNK_TKID, Num(2, 1)>>, <<UNK_TKID, NaN>>, <<EOS_TKID, Num(9, 1)>> }

Batches == 1..2

CellBatches == [Batches -> [1..MaxSeqLen -> Cells]]

TkidsOf(cb) == [b \in DOMAIN cb |-> [s \in DOMAIN cb[b] |-> cb[b][s][1]]]
PdOf(cb) ==
  [b \in DOMAIN cb |-> [s \in DOMAIN cb[b] |-> OneHot(cb[b][s][1], cb[b][s][2])]]

LossStart ==
  /\ \/ \E cb \in CellBatches :
          /\ batch_tkids = TkidsOf(cb)
          /\ batch_tkids_pd = PdOf(cb)
     \/ /\ batch_tkids = FixtureTkids
        /\ batch_tkids_pd = FixturePd
  /\ loss_pc = "ready"
  /\ loss_out = <<>>
  /\ test_outcome = "none"

\* lmp.util.metric.cross_entropy_loss(batch_tkids=..., batch_tkids_pd=...)
CallCrossEntropyLoss ==
  /\ loss_pc = "ready"
  /\ loss_out' = cross_entropy_loss(batch_tkids, batch_tkids_pd)
  /\ loss_pc' = "done"
  /\ UNCHANGED <<batch_tkids, batch_tkids_pd, test_outcome, notLossVars>>

\* assert torch.all(torch.isclose(input=loss, other=batch_cross_entropy_loss))
test_calculate_result ==
  /\ loss_pc = "done"
  /\ batch_tkids = FixtureTkids
  /\ batch_tkids_pd = FixturePd
  /\ test_outcome' =
       IF \A b \in DOMAIN loss_out : IsClose(loss_out[b], FixtureExpectedLoss[b])
       THEN "passed" ELSE "failed"
  /\ loss_pc' = "asserted"
  /\ UNCHANGED <<batch_tkids, batch_tkids_pd, loss_out, notLossVars>>

LossNext == CallCrossEntropyLoss \/ test_calculate_result

\* the variables of the loss test while another part of the program runs
LossParked ==
  /\ batch_tkids = <<>>
  /\ batch_tkids_pd = <<>>
  /\ loss_pc = "parked"
  /\ loss_out = <<>>
  /\ test_outcome = "none"

(***************************************************************************)
(* Python classes.  A class object records its base, the methods its body  *)
(* defines (concrete, or marked with abc.abstractmethod), and the          *)
(* __abstractmethods__ that abc.ABCMeta computes when the class is made.   *)
(***************************************************************************)
NoClasses == [c \in {} |-> 0]

\* the class that defines attribute m for class c: c itself or the nearest base
RECURSIVE Definer(_, _, _)
Definer(cls, c, m) ==
  IF c = "object" THEN "object"
  ELSE IF m \in cls[c].concrete \cup cls[c].abstract THEN c
  ELSE Definer(cls, cls[c].base, m)

\* getattr(getattr(c, m, None), "__isabstractmethod__", False)
IsAbstractAttr(cls, c, m) ==
  LET d == Definer(cls, c, m) IN d # "object" /\ m \in cls[d].abstract

\* abc.ABCMeta.__new__: the names that stay abstract in a new class
ComputeAbstractMethods(cls, base, concrete, abstract) ==
  LET inherited == IF base = "object" THEN {} ELSE cls[base].abstractmethods
      stillAbstract(m) ==
        /\ m \notin concrete
        /\ (m \in abstract \/ IsAbstractAttr(cls, base, m))
  IN  abstract \cup {m \in inherited : stillAbstract(m)}

MakeClass(cls, base, concrete, abstract, model_name, module) ==
  [ base |-> base, concrete |-> concrete, abstract |-> abstract,
    abstractmethods |-> ComputeAbstractMethods(cls, base, concrete, abstract),
    model_name |-> model_name, module |-> module ]

AddClass(cls, name, c) ==
  [x \in DOMAIN cls \cup {name} |-> IF x = name THEN c ELSE cls[x]]

RECURSIVE IsSubclass(_, _, _)
IsSubclass(cls, c, d) ==
  IF c = d THEN TRUE
  ELSE IF c = "object" THEN FALSE
  ELSE IsSubclass(cls, cls[c].base, d)

(***************************************************************************)
(* lmp.model._base.BaseModel: forward and pred are abstract.               *)
(***************************************************************************)
\* faulty variant: pred without abc.abstractmethod
BaseModelBodyPredNotAbstract ==
  [ concrete |-> {"__init__", "pred", "train_parser"}, abstract |-> {"forward"},
    model_name |-> "base" ]

BaseModelBody ==
  [ concrete |-> {"__init__", "train_parser"}, abstract |-> {"forward", "pred"},
    model_name |-> "base" ]

\* the language models that lmp/model/__init__.py imports, and their model_name
ModelNameOf ==
  [ GRUModel |-> "GRU", LSTMModel |-> "LSTM", RNNModel |-> "RNN",
    ResGRUModel |-> "res-GRU", ResRNNModel |-> "res-RNN",
    ResLSTMModel |-> "res-LSTM" ]

ModuleOf ==
  [ GRUModel |-> "lmp.model._gru", LSTMModel |-> "lmp.model._lstm",
    RNNModel |-> "lmp.model._rnn", ResGRUModel |-> "lmp.model._res_gru",
    ResRNNModel |-> "lmp.model._res_rnn", ResLSTMModel |-> "lmp.model._res_lstm" ]

\* from lmp.model._gru import GRUModel, ... (each a concrete language model)
ImportedModels ==
  <<"GRUModel", "LSTMModel", "ResGRUModel", "ResLSTMModel", "ResRNNModel", "RNNModel">>

RECURSIVE DefineModels(_, _)
DefineModels(cls, names) ==
  IF names = <<>> THEN cls
  ELSE LET n == Head(names)
           c == MakeClass(cls, "BaseModel", {"__init__", "forward", "pred"}, {},
                          ModelNameOf[n], ModuleOf[n])
       IN  DefineModels(AddClass(cls, n, c), Tail(names))

\* the classes that exist once lmp/model/__init__.py has run
PackageClasses ==
  LET base == MakeClass(NoClasses, "object", BaseModelBody.concrete,
                        BaseModelBody.abstract, BaseModelBody.model_name,
                        "lmp.model._base")
  IN  DefineModels(AddClass(NoClasses, "BaseModel", base), ImportedModels)

\* faulty variant: RNNModel left out of the list
AllModelsListWithoutRNN ==
  <<"GRUModel", "LSTMModel", "ResGRUModel", "ResRNNModel", "ResLSTMModel">>

\* ALL_MODELS = [GRUModel, LSTMModel, RNNModel, ResGRUModel, ResRNNModel, ResLSTMModel]
AllModelsList ==
  <<"GRUModel", "LSTMModel", "RNNModel", "ResGRUModel", "ResRNNModel", "ResLSTMModel">>

NoOpts == [k \in {} |-> ""]

\* {m.model_name: m for m in ALL_MODELS}: a later entry replaces an earlier one
RECURSIVE DictComprehension(_, _, _)
DictComprehension(cls, models, acc) ==
  IF models = <<>> THEN acc
  ELSE LET m == Head(models)
           k == cls[m].model_name
       IN  DictComprehension(cls, Tail(models),
             [x \in DOMAIN acc \cup {k} |-> IF x = k THEN m ELSE acc[x]])

\* lmp.model._elman_net.ElmanNet, as its signature test pins it down
ElmanNetBody ==
  [ concrete |-> {"__init__", "add_CLI_args", "forward", "params_init", "pred"},
    abstract |-> {}, model_name |-> "Elman-Net" ]

ElmanNetClass(cls) ==
  MakeClass(cls, "BaseModel", ElmanNetBody.concrete, ElmanNetBody.abstract,
            ElmanNetBody.model_name, "lmp.model._elman_net")

(***************************************************************************)
(* The operations on modules and classes.                                  *)
(***************************************************************************)
UserClassNames == <<"UserModel1", "UserModel2", "UserModel3">>

AbstractableMethods == {"forward", "pred"}

\* what a class body does with one method: nothing, define it, declare it abstract
BodyChoices == [AbstractableMethods -> {"absent", "concrete", "abstract"}]

LookupNames ==
  {"base", "RNN", "GRU", "LSTM", "res-RNN", "res-GRU", "res-LSTM", "Elman-Net"}

NoCall == [op |-> "none", arg |-> "", result |-> ""]

ModelStart ==
  /\ imported = {}
  /\ classes = NoClasses
  /\ ALL_MODELS = <<>>
  /\ MODEL_OPTS = NoOpts
  /\ last_call = NoCall

\* import lmp.model: runs lmp/model/__init__.py
ImportLmpModel ==
  /\ "lmp.model" \notin imported
  /\ imported' = imported \cup {"lmp.model"}
  /\ classes' = PackageClasses
  /\ ALL_MODELS' = AllModelsList
  /\ MODEL_OPTS' = DictComprehension(PackageClasses, AllModelsList, NoOpts)
  /\ UNCHANGED <<last_call, notModelVars>>

\* import lmp.model._elman_net (the package is initialised first)
ImportElmanNet ==
  /\ "lmp.model" \in imported
  /\ "lmp.model._elman_net" \notin imported
  /\ imported' = imported \cup {"lmp.model._elman_net"}
  /\ classes' = AddClass(classes, "ElmanNet", ElmanNetClass(classes))
  /\ UNCHANGED <<ALL_MODELS, MODEL_OPTS, last_call, notModelVars>>

\* class UserModel<i>(base): ... in a program that uses the package
DefineSubclass(i, base, body) ==
  /\ "lmp.model" \in imported
  /\ i <= MaxUserClasses
  /\ UserClassNames[i] \notin DOMAIN classes
  /\ i > 1 => UserClassNames[i - 1] \in DOMAIN classes
  /\ base \in DOMAIN classes
  /\ base = "BaseModel" \/ classes[base].module = "__main__"
  /\ LET concrete == {m \in AbstractableMethods : body[m] = "concrete"}
         abstract == {m \in AbstractableMethods : body[m] = "abstract"}
         c == MakeClass(classes, base, concrete, abstract,
                        classes[base].model_name, "__main__")
     IN  classes' = AddClass(classes, UserClassNames[i], c)
  /\ UNCHANGED <<imported, ALL_MODELS, MODEL_OPTS, last_call, notModelVars>>

\* c(...): object.__new__ raises TypeError while c.__abstractmethods__ is not empty
Instantiate(c) ==
  /\ c \in DOMAIN classes
  /\ last_call' =
       [ op |-> "instantiate", arg |-> c,
         result |-> IF classes[c].abstractmethods # {} THEN "TypeError" ELSE "instance" ]
  /\ UNCHANGED <<imported, classes, ALL_MODELS, MODEL_OPTS, notModelVars>>

\* MODEL_OPTS[name]
Lookup(name) ==
  /\ "lmp.model" \in imported
  /\ last_call' =
       [ op |-> "lookup", arg |-> name,
         result |-> IF name \in DOMAIN MODEL_OPTS THEN MODEL_OPTS[name] ELSE "KeyError" ]
  /\ UNCHANGED <<imported, classes, ALL_MODELS, MODEL_OPTS, notModelVars>>

ModelNext ==
  \/ ImportLmpModel
  \/ ImportElmanNet
  \/ \E i \in 1..Len(UserClassNames), base \in DOMAIN classes, body \in BodyChoices :
       DefineSubclass(i, base, body)
  \/ \E c \in DOMAIN classes : Instantiate(c)
  \/ \E name \in LookupNames : Lookup(name)

ModelParked == ModelStart

(***************************************************************************)
(* argparse values: <<type, m, e, s>>: an int m, a float m * 10^e, a str   *)
(* s, None, or the failure of a conversion.                                *)
(***************************************************************************)
IntVal(i) == <<"int", i, 0, "">>
FloatVal(m, e) == <<"float", m, e, "">>
StrVal(s) == <<"str", 0, 0, s>>
NoneVal == <<"None", 0, 0, "">>
ValueError == <<"ValueError", 0, 0, "">>

\* int(s)
ParseInt(s) ==
  CASE s = "32"   -> IntVal(32)
    [] s = "1000" -> IntVal(1000)
    [] s = "200"  -> IntVal(200)
    [] s = "10"   -> IntVal(10)
    [] s = "7"    -> IntVal(7)
    [] s = "1"    -> IntVal(1)
    [] s = "-1"   -> IntVal(-1)
    [] OTHER      -> ValueError

\* float(s)
ParseFloat(s) ==
  CASE s = "32"   -> FloatVal(32, 0)
    [] s = "1000" -> FloatVal(1, 3)
    [] s = "200"  -> FloatVal(2, 2)
    [] s = "10"   -> FloatVal(1, 1)
    [] s = "7"    -> FloatVal(7, 0)
    [] s = "1"    -> FloatVal(1, 0)
    [] s = "-1"   -> FloatVal(-1, 0)
    [] s = "0.9"  -> FloatVal(9, -1)
    [] s = "0.99" -> FloatVal(99, -2)
    [] s = "1e-8" -> FloatVal(1, -8)
    [] s = "1e-4" -> FloatVal(1, -4)
    [] s = "1e-2" -> FloatVal(1, -2)
    [] OTHER      -> ValueError

\* type(s) for the type an argument declares
Convert(type, s) ==
  CASE type = "int"   -> ParseInt(s)
    [] type = "float" -> ParseFloat(s)
    [] type = "str"   -> StrVal(s)

\* lmp.dset.DSET_OPTS.keys()
DSET_OPTS_keys == {"chinese-poem", "wiki-text-2"}

Arg(name, required, type, choices, default) ==
  [ name |-> name, required |-> required, type |-> type,
    choices |-> choices, default |-> default ]

\* no choices= keyword: every value is accepted
AnyValue == {}

\* faulty variant: --wd added without required=True
TrainParserArgumentsWdOptional ==
  << Arg("batch_size", TRUE, "int", AnyValue, NoneVal),
     Arg("beta1", TRUE, "float", AnyValue, NoneVal),
     Arg("beta2", TRUE, "float", AnyValue, NoneVal),
     Arg("ckpt_step", TRUE, "int", AnyValue, NoneVal),
     Arg("dset_name", TRUE, "str", DSET_OPTS_keys, NoneVal),
     Arg("eps", TRUE, "float", AnyValue, NoneVal),
     Arg("exp_name", TRUE, "str", AnyValue, NoneVal),
     Arg("log_step", TRUE, "int", AnyValue, NoneVal),
     Arg("lr", TRUE, "float", AnyValue, NoneVal),
     Arg("max_norm", TRUE, "float", AnyValue, NoneVal),
     Arg("max_seq_len", TRUE, "int", AnyValue, NoneVal),
     Arg("n_epoch", TRUE, "int", AnyValue, NoneVal),
     Arg("tknzr_exp_name", TRUE, "str", AnyValue, NoneVal),
     Arg("ver", TRUE, "str", AnyValue, NoneVal),
     Arg("wd", FALSE, "float", AnyValue, NoneVal),
     Arg("seed", FALSE, "int", AnyValue, IntVal(42)) >>

\* faulty variant: --seed added without default=42
TrainParserArgumentsNoSeedDefault ==
  << Arg("batch_size", TRUE, "int", AnyValue, NoneVal),
     Arg("beta1", TRUE, "float", AnyValue, NoneVal),
     Arg("beta2", TRUE, "float", AnyValue, NoneVal),
     Arg("ckpt_step", TRUE, "int", AnyValue, NoneVal),
     Arg("dset_name", TRUE, "str", DSET_OPTS_keys, NoneVal),
     Arg("eps", TRUE, "float", AnyValue, NoneVal),
     Arg("exp_name", TRUE, "str", AnyValue, NoneVal),
     Arg("log_step", TRUE, "int", AnyValue, NoneVal),
     Arg("lr", TRUE, "float", AnyValue, NoneVal),
     Arg("max_norm", TRUE, "float", AnyValue, NoneVal),
     Arg("max_seq_len", TRUE, "int", AnyValue, NoneVal),
     Arg("n_epoch", TRUE, "int", AnyValue, NoneVal),
     Arg("tknzr_exp_name", TRUE, "str", AnyValue, NoneVal),
     Arg("ver", TRUE, "str", AnyValue, NoneVal),
     Arg("wd", TRUE, "float", AnyValue, NoneVal),
     Arg("seed", FALSE, "int", AnyValue, NoneVal) >>

\* the group.add_argument calls of BaseModel.train_parser, in order
TrainParserArguments ==
  << Arg("batch_size", TRUE, "int", AnyValue, NoneVal),
     Arg("beta1", TRUE, "float", AnyValue, NoneVal),
     Arg("beta2", TRUE, "float", AnyValue, NoneVal),
     Arg("ckpt_step", TRUE, "int", AnyValue, NoneVal),
     Arg("dset_name", TRUE, "str", DSET_OPTS_keys, NoneVal),
     Arg("eps", TRUE, "float", AnyValue, NoneVal),
     Arg("exp_name", TRUE, "str", AnyValue, NoneVal),
     Arg("log_step", TRUE, "int", AnyValue, NoneVal),
     Arg("lr", TRUE, "float", AnyValue, NoneVal),
     Arg("max_norm", TRUE, "float", AnyValue, NoneVal),
     Arg("max_seq_len", TRUE, "int", AnyValue, NoneVal),
     Arg("n_epoch", TRUE, "int", AnyValue, NoneVal),
     Arg("tknzr_exp_name", TRUE, "str", AnyValue, NoneVal),
     Arg("ver", TRUE, "str", AnyValue, NoneVal),
     Arg("wd", TRUE, "float", AnyValue, NoneVal),
     Arg("seed", FALSE, "int", AnyValue, IntVal(42)) >>

(***************************************************************************)
(* argparse.ArgumentParser.parse_args on a command line of --name value    *)
(* pairs, given the arguments the parser holds.                            *)
(***************************************************************************)
NoArgv == [o \in {} |-> ""]
NoNamespace == [o \in {} |-> NoneVal]

ArgNames(pargs) == {pargs[i].name : i \in DOMAIN pargs}

\* the value an argument takes from its raw string: type conversion, then choices
TakeValue(arg, raw) ==
  LET v == Convert(arg.type, raw)
  IN  IF v = ValueError THEN [ok |-> FALSE, msg |-> "invalid value", v |-> v]
      ELSE IF arg.choices # AnyValue /\ raw \notin arg.choices
        THEN [ok |-> FALSE, msg |-> "invalid choice", v |-> v]
      ELSE [ok |-> TRUE, msg |-> "", v |-> v]

ParseError(msg) == [kind |-> "error", msg |-> msg, ns |-> NoNamespace]

parse_args(pargs, argv) ==
  LET supplied == {i \in DOMAIN pargs : pargs[i].name \in DOMAIN argv}
      bad      == {i \in supplied : ~TakeValue(pargs[i], argv[pargs[i].name]).ok}
      missing  == {i \in DOMAIN pargs : pargs[i].required /\ i \notin supplied}
      first(S) == CHOOSE i \in S : \A j \in S : i <= j
  IN  IF bad # {}
        THEN ParseError(TakeValue(pargs[first(bad)], argv[pargs[first(bad)].name]).msg)
      ELSE IF missing # {} THEN ParseError("required")
      ELSE IF DOMAIN argv \ ArgNames(pargs) # {} THEN ParseError("unrecognized")
      ELSE [ kind |-> "namespace", msg |-> "",
             ns |-> [ o \in ArgNames(pargs) |->
                      LET i == CHOOSE j \in DOMAIN pargs : pargs[j].name = o
                      IN  IF i \in supplied
                            THEN TakeValue(pargs[i], argv[o]).v
                            ELSE pargs[i].default ] ]

\* the command line of the docstring example (it leaves --seed out)
DocstringArgv ==
  [ batch_size |-> "32", beta1 |-> "0.9", beta2 |-> "0.99", ckpt_step |-> "1000",
    dset_name |-> "wiki-text-2", eps |-> "1e-8", exp_name |-> "my_exp",
    log_step |-> "200", lr |-> "1e-4", max_norm |-> "1", max_seq_len |-> "-1",
    n_epoch |-> "10", tknzr_exp_name |-> "my_tknzr_exp", ver |-> "train",
    wd |-> "1e-2" ]

\* what the docstring example says the parsed arguments are
DocstringNamespace ==
  [ batch_size |-> IntVal(32), beta1 |-> FloatVal(9, -1), beta2 |-> FloatVal(99, -2),
    ckpt_step |-> IntVal(1000), dset_name |-> StrVal("wiki-text-2"),
    eps |-> FloatVal(1, -8), exp_name |-> StrVal("my_exp"),
    log_step |-> IntVal(200), lr |-> FloatVal(1, -4), max_norm |-> FloatVal(1, 0),
    max_seq_len |-> IntVal(-1), n_epoch |-> IntVal(10), seed |-> IntVal(42),
    tknzr_exp_name |-> StrVal("my_tknzr_exp"), ver |-> StrVal("train"),
    wd |-> FloatVal(1, -2) ]

\* command lines explored: the docstring's, with --seed 7, some options left
\* out and at most one value replaced
AllOptions == DOMAIN DocstringArgv \cup {"seed"}

FullArgv == [o \in AllOptions |-> IF o = "seed" THEN "7" ELSE DocstringArgv[o]]

RawValues == {"32", "-1", "0.9", "1e-4", "abc", "wiki-text-2", "chinese-poem"}

LeftOut == {M \in SUBSET AllOptions : Cardinality(M) <= MaxMissing}

ArgvWith(M, o, raw) ==
  [x \in AllOptions \ M |-> IF x = o THEN raw ELSE FullArgv[x]]

ParserStart ==
  /\ parser_args = <<>>
  /\ parser_ret = "not called"
  /\ parse_argv = NoArgv
  /\ parse_result = [kind |-> "none", msg |-> "", ns |-> NoNamespace]

ParserParked == ParserStart

\* BaseModel.train_parser(parser) on a fresh parser
train_parser ==
  /\ parser_ret = "not called"
  /\ parse_result.kind = "none"
  /\ parser_args' = parser_args \o TrainParserArguments
  /\ parser_ret' = "None"
  /\ UNCHANGED <<parse_argv, parse_result, notParserVars>>

\* parser.parse_args(argv), argv the docstring's command line with --seed 7,
\* the options of M left out and the value of option o replaced (or kept)
CallParseArgs ==
  /\ parse_result.kind = "none"
  /\ \E M \in LeftOut, o \in AllOptions :
       \E raw \in RawValues \cup {FullArgv[o]} :
         /\ parse_argv' = ArgvWith(M, o, raw)
         /\ parse_result' = parse_args(parser_args, ArgvWith(M, o, raw))
  /\ UNCHANGED <<parser_args, parser_ret, notParserVars>>

ParserNext == train_parser \/ CallParseArgs

(***************************************************************************)
(* BaseModel.pred and BaseModel.forward on a recurrent language model with *)
(* one hidden unit: hidden states and weights are residues, a batch holds  *)
(* one token.  A tensor argument is <<>> (None) or <<value>>.              *)
(***************************************************************************)
HiddenValues == 0..2

Q == Cardinality(HiddenValues)

ParamValues == [w : HiddenValues, h_0 : HiddenValues]

None == <<>>

\* faulty variant: a tensor as the default of batch_prev_states
PredDefaultPrevStatesTensor == <<1>>

\* batch_prev_states: Optional[torch.Tensor] = None
PredDefaultPrevStates == None

\* @torch.no_grad() on BaseModel.pred: the grad mode while the decorated
\* function runs.  The decorator wraps BaseModel.pred only: a subclass that
\* overrides pred replaces the wrapped function.
NoGrad(mode) == FALSE

\* the grad mode while an overriding pred runs: off only if the subclass
\* decorates its override itself
OverrideGradMode(decorated, mode) == IF decorated THEN FALSE ELSE mode

\* the recurrence: hidden state after reading tkid in state h
Step(p, tkid, h) == (p.w * (tkid + 1) + 2 * h + 1) % Q

\* next token id probability distribution (in tenths) read off a hidden state
Distribution(p, h) ==
  [v \in Vocab |-> IF v = (h + p.w) % Cardinality(Vocab) THEN 7 ELSE 1]

\* the hidden state pred starts from: the initial one when given None
PrevOrInitial(p, batch_prev_states) ==
  IF batch_prev_states = None THEN p.h_0 ELSE batch_prev_states[1]

\* ElmanNet.pred(batch_cur_tkids, batch_prev_states) under grad mode `mode`
ElmanNet_pred(p, mode, tkid, batch_prev_states) ==
  LET h == Step(p, tkid, PrevOrInitial(p, batch_prev_states))
  IN  [ pd |-> Distribution(p, h), states |-> <<h>>,
        \* an output joins an autograd graph only while grad mode is on
        requires_grad |-> mode ]

\* the parameters after loss.backward() and an optimizer step
Updated(p, cur, next) ==
  [ w |-> (p.w + cur + next + 1) % Q, h_0 |-> (p.h_0 + next + 1) % Q ]

NoOutput == [v \in {} |-> 0]

Call(op, tkid, given, prev, prior, pd, states, requires_grad, raised) ==
  [ op |-> op, tkid |-> tkid, given |-> given, prev |-> prev, prior_held |-> prior,
    pd |-> pd, states |-> states, requires_grad |-> requires_grad, raised |-> raised ]

PredStart ==
  /\ grad_enabled = TRUE
  /\ params \in ParamValues
  /\ params_grad = None
  /\ autograd_graphs = 0
  /\ held_states = None
  /\ pred_no_grad \in BOOLEAN
  /\ model_call = Call("none", 0, FALSE, None, None, NoOutput, None, FALSE, "")

PredParked ==
  /\ grad_enabled = TRUE
  /\ params = [w |-> 0, h_0 |-> 0]
  /\ params_grad = None
  /\ autograd_graphs = 0
  /\ held_states = None
  /\ pred_no_grad = TRUE
  /\ model_call = Call("none", 0, FALSE, None, None, NoOutput, None, FALSE, "")

\* torch.set_grad_enabled(b)
SetGradEnabled(b) ==
  /\ grad_enabled # b
  /\ grad_enabled' = b
  /\ model_call' = Call("set_grad_enabled", 0, FALSE, None, held_states, NoOutput,
                        None, FALSE, "")
  /\ UNCHANGED <<params, params_grad, autograd_graphs, held_states, pred_no_grad,
                 notPredVars>>

\* pd, states = model.pred(tkid) / model.pred(tkid, None) / model.pred(tkid, states)
CallPred(tkid, given, arg) ==
  LET batch_prev_states == IF given THEN arg ELSE PredDefaultPrevStates
      inside == OverrideGradMode(pred_no_grad, grad_enabled)
      out == ElmanNet_pred(params, inside, tkid, batch_prev_states)
  IN  /\ model_call' = Call("pred", tkid, given, IF given THEN arg ELSE None,
                            held_states, out.pd, out.states, out.requires_grad, "")
      /\ held_states' = out.states
      /\ autograd_graphs' =
           IF out.requires_grad /\ autograd_graphs < MaxGraphs
             THEN autograd_graphs + 1 ELSE autograd_graphs
      \* a decorator restores the grad mode on return
      /\ grad_enabled' = grad_enabled
      \* inference reads the parameters (docstring of pred)
      /\ UNCHANGED <<params, params_grad, pred_no_grad, notPredVars>>

\* super().pred(...): BaseModel.pred raises NotImplementedError with the grad
\* mode off, and the decorator restores the mode as the exception leaves
CallBasePred(tkid) ==
  /\ model_call.op # "base_pred" \/ model_call.tkid # tkid
  /\ model_call' = Call("base_pred", tkid, FALSE, None, held_states, NoOutput, None,
                        NoGrad(grad_enabled), "NotImplementedError")
  /\ UNCHANGED <<grad_enabled, params, params_grad, autograd_graphs, held_states,
                 pred_no_grad, notPredVars>>

\* loss = model(batch_cur_tkids, batch_next_tkids): forward builds a graph
CallForward(cur, next) ==
  /\ grad_enabled
  /\ autograd_graphs < MaxGraphs
  /\ autograd_graphs' = autograd_graphs + 1
  /\ model_call' = Call("forward", cur, TRUE, <<next>>, held_states, NoOutput, None,
                        TRUE, "")
  /\ UNCHANGED <<grad_enabled, params, params_grad, held_states, pred_no_grad,
                 notPredVars>>

\* loss.backward(); optimizer.step(): frees the graph, changes the parameters
BackwardAndStep ==
  /\ model_call.op = "forward"
  /\ autograd_graphs > 0
  /\ autograd_graphs' = autograd_graphs - 1
  /\ params' = Updated(params, model_call.tkid, model_call.prev[1])
  /\ params_grad' = <<(model_call.tkid + model_call.prev[1]) % Q>>
  /\ model_call' = Call("step", 0, FALSE, None, held_states, NoOutput, None, FALSE, "")
  /\ UNCHANGED <<grad_enabled, held_states, pred_no_grad, notPredVars>>

PredNext ==
  \/ \E b \in BOOLEAN : SetGradEnabled(b)
  \/ \E tkid \in Vocab : CallPred(tkid, FALSE, None)
  \/ \E tkid \in Vocab : CallPred(tkid, TRUE, None)
  \/ \E tkid \in Vocab : held_states # None /\ CallPred(tkid, TRUE, held_states)
  \/ \E tkid \in Vocab : CallBasePred(tkid)
  \/ \E cur, next \in Vocab : CallForward(cur, next)
  \/ BackwardAndStep

(***************************************************************************)
(* Specifications: one per part of the program.                            *)
(***************************************************************************)
LossInit == LossStart /\ ModelParked /\ ParserParked /\ PredParked

SpecLoss == LossInit /\ [][LossNext]_vars

ModelInit == ModelStart /\ LossParked /\ ParserParked /\ PredParked

SpecModel == ModelInit /\ [][ModelNext]_vars

ParserInit == ParserStart /\ LossParked /\ ModelParked /\ PredParked

SpecParser == ParserInit /\ [][ParserNext]_vars

PredInit == PredStart /\ LossParked /\ ModelParked /\ ParserParked

SpecPred == PredInit /\ [][PredNext]_vars

(***************************************************************************)
(* Properties of cross_entropy_loss.                                       *)
(***************************************************************************)
\* probability the distribution at (b, s) assigns to the target token
TargetProb(b, s) == batch_tkids_pd[b][s][batch_tkids[b][s]]

NonPadPositions(b) == {s \in DOMAIN batch_tkids[b] : batch_tkids[b][s] # PAD_TKID}
NaNPositions(b) == {s \in NonPadPositions(b) : TargetProb(b, s) = NaN}

RECURSIVE SumLogOver(_, _)
SumLogOver(b, S) ==
  IF S = {} THEN 0
  ELSE LET s == CHOOSE x \in S : TRUE
       IN  LogTenths(TargetProb(b, s)[2]) + SumLogOver(b, S \ {s})

\* the negative mean of the target log-probabilities over the positions S
NegMeanLogOver(b, S) == Num(-SumLogOver(b, S), Cardinality(S))

\* the negative mean of log(target probability) over the positions S, as
\* floating point arithmetic gives it: log(NaN) is NaN and makes the sum NaN
FloatNegMeanLogOver(b, S) ==
  IF \E s \in S : TargetProb(b, s) = NaN THEN NaN ELSE NegMeanLogOver(b, S)

\* C1 as stated: one loss per sequence, and the loss of every sequence (that
\* has a non-padding position) is the negative mean of log(target
\* probability) over its non-padding positions, sum and count alike.
C1_LossIsNegMeanOverNonPad ==
  loss_pc # "ready" =>
    /\ DOMAIN loss_out = DOMAIN batch_tkids
    /\ \A b \in DOMAIN batch_tkids :
         NonPadPositions(b) # {} =>
           loss_out[b] = FloatNegMeanLogOver(b, NonPadPositions(b))

\* C1 (amended): one loss per sequence, and the loss of every sequence is the
\* negative mean of log(target probability) over the positions whose target
\* is not PAD_TKID and whose target probability is not NaN (when the sequence
\* has such a position): padding positions and NaN positions contribute
\* neither to the sum nor to the count; the repository's test passes.
C1_LossIsMaskedNegMean ==
  /\ loss_pc # "ready" =>
       /\ DOMAIN loss_out = DOMAIN batch_tkids
       /\ \A b \in DOMAIN batch_tkids :
            LET counted == NonPadPositions(b) \ NaNPositions(b)
            IN  counted # {} => loss_out[b] = NegMeanLogOver(b, counted)
  /\ test_outcome # "failed"

\* the losses are computed for a batch in which one sequence has a NaN
\* position beside a counted position, and one sequence has a padding
\* position (whose probability would change the mean) beside a counted one
C1_Witness ==
  /\ loss_pc = "done"
  /\ \E b \in DOMAIN batch_tkids :
       /\ NonPadPositions(b) \ NaNPositions(b) # {}
       /\ NaNPositions(b) # {}
  /\ \E b \in DOMAIN batch_tkids :
       /\ NonPadPositions(b) \ NaNPositions(b) # {}
       /\ \E s \in DOMAIN batch_tkids[b] \ NonPadPositions(b) :
            TargetProb(b, s) # NaN /\ TargetProb(b, s)[2] # 10

\* C2: when a non-padding position of the batch has a NaN target
\* probability, that position is left out of the sum and of the count: every
\* sequence with a position left has a finite loss, the negative mean over
\* its non-padding, non-NaN positions.
C2_NaNIsMasked ==
  (loss_pc # "ready" /\ \E c \in DOMAIN batch_tkids : NaNPositions(c) # {}) =>
    \A b \in DOMAIN batch_tkids :
      LET valid == NonPadPositions(b) \ NaNPositions(b)
      IN  valid # {} =>
            /\ IsFinite(loss_out[b])
            /\ loss_out[b] = NegMeanLogOver(b, valid)

\* a sequence with a NaN position and a valid one, beside a sequence without NaN
C2_Witness ==
  /\ loss_pc = "done"
  /\ \E b, c \in DOMAIN batch_tkids :
       /\ NaNPositions(b) # {}
       /\ NonPadPositions(b) \ NaNPositions(b) # {}
       /\ NaNPositions(c) = {}
       /\ NonPadPositions(c) # {}
       /\ IsFinite(loss_out[b])
       /\ IsFinite(loss_out[c])

(***************************************************************************)
(* Properties of ALL_MODELS, MODEL_OPTS and the abstract base class.       *)
(***************************************************************************)
Range(f) == {f[x] : x \in DOMAIN f}

\* C3: once lmp.model is imported, MODEL_OPTS maps the model_name of every
\* class of ALL_MODELS to that class, has as many entries as ALL_MODELS, and
\* maps 'RNN' to RNNModel; a lookup returns what the mapping holds.
C3_ModelOptsMapsNameToClass ==
  "lmp.model" \in imported =>
    /\ \A i \in DOMAIN ALL_MODELS :
         /\ classes[ALL_MODELS[i]].model_name \in DOMAIN MODEL_OPTS
         /\ MODEL_OPTS[classes[ALL_MODELS[i]].model_name] = ALL_MODELS[i]
    /\ Cardinality(DOMAIN MODEL_OPTS) = Len(ALL_MODELS)
    /\ "RNN" \in DOMAIN MODEL_OPTS
    /\ MODEL_OPTS["RNN"] = "RNNModel"
    /\ (last_call.op = "lookup" /\ last_call.arg = "RNN") => last_call.result = "RNNModel"

\* MODEL_OPTS['RNN'] has been evaluated and gave RNNModel
C3_Witness ==
  /\ last_call = [op |-> "lookup", arg |-> "RNN", result |-> "RNNModel"]
  /\ Len(ALL_MODELS) > 1

\* the language models of the package: the concrete subclasses of BaseModel
\* that a module of lmp.model defines
PackageModels ==
  { c \in DOMAIN classes :
      /\ classes[c].module # "__main__"
      /\ c # "BaseModel"
      /\ IsSubclass(classes, c, "BaseModel")
      /\ classes[c].abstractmethods = {} }

\* C4: every language model class of the package is in ALL_MODELS and is
\* found in MODEL_OPTS under its model_name.
C4_EveryModelIsRegistered ==
  \A c \in PackageModels :
    /\ c \in Range(ALL_MODELS)
    /\ classes[c].model_name \in DOMAIN MODEL_OPTS
    /\ MODEL_OPTS[classes[c].model_name] = c

\* m resolves, for class c, to a concrete definition made below BaseModel
OverriddenBelowBase(c, m) ==
  LET d == Definer(classes, c, m)
  IN  d \notin {"object", "BaseModel"} /\ m \in classes[d].concrete

\* C6: BaseModel is abstract in forward and pred and is never instantiated; a
\* subclass of BaseModel is instantiated only if forward and pred both
\* resolve to concrete overrides; ElmanNet is a concrete subclass of
\* BaseModel that defines forward and pred.
C6_AbstractBaseModel ==
  /\ "BaseModel" \in DOMAIN classes =>
       classes["BaseModel"].abstractmethods = {"forward", "pred"}
  /\ (last_call.op = "instantiate" /\ last_call.result = "instance") =>
       /\ last_call.arg # "BaseModel"
       /\ IsSubclass(classes, last_call.arg, "BaseModel") =>
            \A m \in {"forward", "pred"} : OverriddenBelowBase(last_call.arg, m)
  /\ (last_call.op = "instantiate" /\ last_call.arg = "BaseModel") =>
       last_call.result = "TypeError"
  /\ "ElmanNet" \in DOMAIN classes =>
       /\ IsSubclass(classes, "ElmanNet", "BaseModel")
       /\ classes["ElmanNet"].abstractmethods = {}
       /\ {"forward", "pred"} \subseteq classes["ElmanNet"].concrete

\* a subclass that overrides one method only was refused, and ElmanNet exists
C6_Witness ==
  /\ "ElmanNet" \in DOMAIN classes
  /\ last_call.op = "instantiate"
  /\ last_call.result = "TypeError"
  /\ last_call.arg \notin {"BaseModel", "ElmanNet"}
  /\ classes[last_call.arg].concrete = {"forward"}
  /\ \E c \in DOMAIN classes :
       /\ classes[c].module = "__main__"
       /\ classes[c].base # "BaseModel"
       /\ classes[c].abstractmethods = {}

(***************************************************************************)
(* Properties of BaseModel.train_parser.                                   *)
(***************************************************************************)
RequiredFifteen ==
  { "batch_size", "beta1", "beta2", "ckpt_step", "dset_name", "eps", "exp_name",
    "log_step", "lr", "max_norm", "max_seq_len", "n_epoch", "tknzr_exp_name",
    "ver", "wd" }

DeclaredType ==
  [ batch_size |-> "int", beta1 |-> "float", beta2 |-> "float", ckpt_step |-> "int",
    dset_name |-> "str", eps |-> "float", exp_name |-> "str", log_step |-> "int",
    lr |-> "float", max_norm |-> "float", max_seq_len |-> "int", n_epoch |-> "int",
    seed |-> "int", tknzr_exp_name |-> "str", ver |-> "str", wd |-> "float" ]

\* a command line was parsed by a parser that train_parser has set up
ParsedAfterTrainParser == parser_ret = "None" /\ parse_result.kind # "none"

\* the namespace holds every supplied value converted, and seed 42 by default
NamespaceHoldsConvertedValues ==
  /\ parse_result.kind = "namespace"
  /\ DOMAIN parse_result.ns = RequiredFifteen \cup {"seed"}
  /\ \A o \in RequiredFifteen :
       parse_result.ns[o] = Convert(DeclaredType[o], parse_argv[o])
  /\ parse_result.ns["seed"] =
       IF "seed" \in DOMAIN parse_argv THEN ParseInt(parse_argv["seed"]) ELSE IntVal(42)

\* C5 as stated: whenever the fifteen required options are supplied, the
\* namespace holds each supplied value converted to its declared type, and
\* seed is 42 or the supplied integer.
C5_AllSuppliedGivesNamespace ==
  (ParsedAfterTrainParser /\ RequiredFifteen \subseteq DOMAIN parse_argv) =>
    NamespaceHoldsConvertedValues

\* every supplied value converts to its declared type and --dset_name is a
\* key of lmp.dset.DSET_OPTS
ValuesAcceptable ==
  /\ \A o \in DOMAIN parse_argv : Convert(DeclaredType[o], parse_argv[o]) # ValueError
  /\ "dset_name" \in DOMAIN parse_argv => parse_argv["dset_name"] \in DSET_OPTS_keys

\* C5 (amended): train_parser returns None; when the fifteen required options
\* are supplied with values that convert to their declared types and a
\* --dset_name that is a key of DSET_OPTS, the namespace holds each supplied
\* value converted, and seed is 42 or the supplied integer; the docstring's
\* command line gives the docstring's values.
C5_AcceptableSuppliedGivesNamespace ==
  /\ parser_args # <<>> => parser_ret = "None"
  /\ (ParsedAfterTrainParser /\ RequiredFifteen \subseteq DOMAIN parse_argv
        /\ ValuesAcceptable) => NamespaceHoldsConvertedValues
  /\ (ParsedAfterTrainParser /\ parse_argv = DocstringArgv) =>
       parse_result.ns = DocstringNamespace

\* all fifteen supplied, one with another value than the docstring's, no --seed
C5_Witness ==
  /\ ParsedAfterTrainParser
  /\ DOMAIN parse_argv = RequiredFifteen
  /\ parse_argv["lr"] = "32"
  /\ parse_result.kind = "namespace"
  /\ parse_result.ns["lr"] = FloatVal(32, 0)
  /\ parse_result.ns["seed"] = IntVal(42)

\* C9: after train_parser, a command line that leaves out one of the fifteen
\* required options fails with an argument error and gives no namespace;
\* --seed is the only option whose absence parse_args accepts.
C9_MissingRequiredFails ==
  /\ (ParsedAfterTrainParser /\ ~(RequiredFifteen \subseteq DOMAIN parse_argv)) =>
       /\ parse_result.kind = "error"
       /\ parse_result.ns = NoNamespace
  /\ (ParsedAfterTrainParser /\ parse_result.kind = "namespace") =>
       AllOptions \ DOMAIN parse_argv \subseteq {"seed"}
  /\ (ParsedAfterTrainParser /\ parse_argv = DocstringArgv) =>
       parse_result.kind = "namespace"

\* only --wd is left out, every value is the docstring's: the parse fails
C9_Witness ==
  /\ ParsedAfterTrainParser
  /\ DOMAIN parse_argv = AllOptions \ {"wd"}
  /\ \A o \in DOMAIN parse_argv : parse_argv[o] = FullArgv[o]
  /\ parse_result = ParseError("required")

(***************************************************************************)
(* Properties of pred.                                                     *)
(***************************************************************************)
\* C8: pred without batch_prev_states, or with None, starts from the model's
\* initial hidden state: distribution and returned state are those computed
\* from h_0 for the given token, whatever was called before.
C8_PredDefaultsToInitialState ==
  (model_call.op = "pred" /\ (~model_call.given \/ model_call.prev = None)) =>
    LET h == Step(params, model_call.tkid, params.h_0)
    IN  /\ model_call.states = <<h>>
        /\ model_call.pd = Distribution(params, h)

\* pred was called without batch_prev_states after earlier calls had left the
\* caller a hidden state other than the initial one
C8_Witness ==
  /\ model_call.op = "pred"
  /\ ~model_call.given
  /\ model_call.prior_held # None
  /\ model_call.prior_held # <<params.h_0>>
  /\ params_grad # None

====
